---- MODULE Spec2Model ----
(***************************************************************************)
(* Stiebel Eltron ISG modbus coordinators (base and WPM): the transport    *)
(* wrapper with its lock, the poll cycle with its six block reads and      *)
(* their decoders, and the write path set_data.                            *)
(*                                                                         *)
(* Representation of Python values:                                        *)
(*   - a register word is an integer 0..65535 (decode_16bit_int reads it   *)
(*     as two's complement);                                               *)
(*   - a float is held exactly, as an integer number of thousandths        *)
(*     (21.5 is 21500); None in a float field is NoneVal;                  *)
(*   - a dict is a function whose domain is its key set.                   *)
(***************************************************************************)
EXTENDS Integers, Sequences, FiniteSets, TLC

(* ------------------------------ bounds -------------------------------- *)

\* Number of different device memory images the device can present.
NumImages == 3
\* Most set_data calls between two publications of the snapshot.
MaxSets == 1

(* --------------------------- value encoding --------------------------- *)

\* None (get_isg_scaled_value on the sentinel word).
NoneVal == -99999999

EmptyDict == [k \in {} |-> 0]

Signed(w) == IF w >= 32768 THEN w - 65536 ELSE w

\* int(x) of Python for x = num / den, den > 0: truncation toward zero.
TruncDiv(num, den) == IF num >= 0 THEN num \div den ELSE -((-num) \div den)

(* --------------------------- device memory ---------------------------- *)

\* Word at register address a (as sent on the wire: the documented register
\* number minus one) of the k-th device image.  Image 3
\* holds the "not available" word in the heater pressure register (image 2
\* holds it in the first temperature register, 500) and real
\* values in the pump status registers 2508..2514; the other images hold
\* the pump status registers as "not available".
Mem(k, a) ==
    CASE a = 5001 -> (IF k = 1 THEN 390 ELSE IF k = 2 THEN 391
                      ELSE IF k = 3 THEN 449 ELSE 103)
      [] a = 519 /\ k = 3 -> 32768
      [] a = 500 /\ k = 2 -> 32768
      [] a = 506 -> 65536 - (10 * k)
      [] a = 3502 \/ a = 3505 \/ a = 3512 \/ a = 3515 -> k - 1
      [] a >= 2508 /\ a <= 2514 -> (IF k = 3 THEN 1 ELSE 32768)
      [] a >= 2515 /\ a <= 2546 -> (IF (a + k) % 3 = 0 THEN 32768 ELSE (a + k) % 2)
      [] a = 2506 -> (IF k = 2 THEN 32768 ELSE 20 + k)
      [] OTHER -> ((a * 7 + k * 13) % 90) + k

\* The registers of a successful read of count words at address a.
Registers(k, a, count) == [i \in 1..count |-> Mem(k, a + i - 1)]

(* ------------------------------ decoding ------------------------------ *)

\* get_isg_scaled_value of __init__.py: value * 0.1, None on the sentinel.
get_isg_scaled_value(value) ==
    IF value # -32768 THEN value * 100 ELSE NoneVal

\* get_isg_scaled_value(value, factor) as wpm_coordinator.py calls it (the
\* two-argument form of coordinator.py): value / factor, None on the sentinel.
get_isg_scaled_value_factor(value, factor) ==
    IF value # -32768 THEN value * (1000 \div factor) ELSE NoneVal

\* (state & (1 << bit)) != 0
Bit(state, bit) == (state \div (2 ^ bit)) % 2 = 1

\* Average power the base family reports while heating (const.py).
HEATPUMPT_AVERAGE_POWER == 1

\* A skip_bytes whose argument is taken for a number of words.
SkipWords(b) == [op |-> "skip", key |-> "", n |-> 2 * b, div |-> 1]

\* One step of a BinaryPayloadDecoder walk: decode_16bit_uint ("u16"),
\* decode_16bit_int handed to get_isg_scaled_value ("i16", with its factor),
\* or skip_bytes ("skip").  n is the number of bytes the cursor advances.
U(k) == [op |-> "u16", key |-> k, n |-> 2, div |-> 1]
S(k, d) == [op |-> "i16", key |-> k, n |-> 2, div |-> d]
Skip(b) == [op |-> "skip", key |-> "", n |-> b, div |-> 1]

\* Byte offset of the cursor before each step of a layout.
RECURSIVE OffsetsFrom(_, _, _, _)
OffsetsFrom(layout, i, at, acc) ==
    IF i > Len(layout) THEN acc
    ELSE OffsetsFrom(layout, i + 1, at + layout[i].n, Append(acc, at))

Offsets(layout) == OffsetsFrom(layout, 1, 0, <<>>)

\* Bytes a walk of the layout consumes.
RECURSIVE LayoutBytes(_, _)
LayoutBytes(layout, i) ==
    IF i > Len(layout) THEN 0 ELSE layout[i].n + LayoutBytes(layout, i + 1)

\* The decoder raises when a step reads past the end of the payload.
Overruns(layout, regs) == LayoutBytes(layout, 1) > 2 * Len(regs)

StepIndexes(layout, ops) == {i \in 1..Len(layout) : layout[i].op \in ops}

\* The word each decoding step yields, by the step's name.
Decoded(layout, regs) ==
    LET off == Offsets(layout)
        idx == StepIndexes(layout, {"u16", "i16"})
        word(i) == regs[(off[i] \div 2) + 1]
    IN  [k \in {layout[i].key : i \in idx} |->
            LET i == CHOOSE j \in idx : layout[j].key = k
            IN  IF layout[i].op = "i16" THEN Signed(word(i)) ELSE word(i)]

Divisor(layout, k) ==
    LET i == CHOOSE j \in StepIndexes(layout, {"i16"}) : layout[j].key = k
    IN  layout[i].div

ScaledKeys(layout) == {layout[i].key : i \in StepIndexes(layout, {"i16"})}
UintKeys(layout) == {layout[i].key : i \in StepIndexes(layout, {"u16"})}

Ok(fields) == [raised |-> FALSE, fields |-> fields]
Raised == [raised |-> TRUE, fields |-> EmptyDict]

(* --------------------- base family: block decoders -------------------- *)

\* read_modbus_system_state (base): the walk over the 1-word block at 2500.
BaseStateLayout ==
    << U("state") >>

read_modbus_system_state_base(regs) ==
    IF Overruns(BaseStateLayout, regs) THEN Raised
    ELSE
    LET state == Decoded(BaseStateLayout, regs)["state"]
        is_heating == Bit(state, 4)
        is_heating_water == Bit(state, 5)
    IN  Ok([k \in {"IS_HEATING", "IS_HEATING_WATER", "CONSUMED_POWER",
                   "IS_SUMMER_MODE", "IS_COOLING"} |->
            CASE k = "IS_HEATING" -> is_heating
              [] k = "IS_HEATING_WATER" -> is_heating_water
              [] k = "CONSUMED_POWER" ->
                   (IF is_heating_water \/ is_heating
                    THEN HEATPUMPT_AVERAGE_POWER ELSE 0)
              [] k = "IS_SUMMER_MODE" -> Bit(state, 7)
              [] k = "IS_COOLING" -> Bit(state, 8)])

\* read_modbus_system_values (base): the walk over the 40-word block at 500.
\* hk1_target is decoded into a local and not stored.
BaseValuesLayout ==
    << S("ACTUAL_TEMPERATURE", 10), S("TARGET_TEMPERATURE", 10),
       S("ACTUAL_TEMPERATURE_FEK", 10), S("TARGET_TEMPERATURE_FEK", 10),
       S("ACTUAL_HUMIDITY", 10), S("DEWPOINT_TEMPERATURE", 10),
       S("OUTDOOR_TEMPERATURE", 10), S("ACTUAL_TEMPERATURE_HK1", 10),
       S("hk1_target", 10), S("TARGET_TEMPERATURE_HK1", 10),
       S("ACTUAL_TEMPERATURE_HK2", 10), S("TARGET_TEMPERATURE_HK2", 10),
       Skip(10), S("ACTUAL_TEMPERATURE_BUFFER", 10),
       S("TARGET_TEMPERATURE_BUFFER", 10), S("HEATER_PRESSURE", 10),
       S("VOLUME_STREAM", 10), S("ACTUAL_TEMPERATURE_WATER", 10),
       S("TARGET_TEMPERATURE_WATER", 10), Skip(24),
       S("SOURCE_TEMPERATURE", 10) >>

\* HEATER_PRESSURE and VOLUME_STREAM are get_isg_scaled_value(...) / 10: the
\* division raises TypeError when get_isg_scaled_value returned None.
BaseDividedKeys == {"HEATER_PRESSURE", "VOLUME_STREAM"}

read_modbus_system_values_base(regs) ==
    IF Overruns(BaseValuesLayout, regs) THEN Raised
    ELSE
    LET raw == Decoded(BaseValuesLayout, regs)
        scaled == [k \in DOMAIN raw |-> get_isg_scaled_value(raw[k])]
    IN  IF \E k \in BaseDividedKeys : scaled[k] = NoneVal THEN Raised
        ELSE Ok([k \in (DOMAIN raw) \ {"hk1_target"} |->
                    IF k \in BaseDividedKeys THEN scaled[k] \div 10
                    ELSE scaled[k]])

\* read_modbus_system_paramter (base): the first word of the block at 1500.
BaseParamLayout ==
    << U("OPERATION_MODE") >>

read_modbus_system_paramter_base(regs) ==
    IF Overruns(BaseParamLayout, regs) THEN Raised
    ELSE Ok(Decoded(BaseParamLayout, regs))

\* read_modbus_energy (both families, same code): the 22-word block at 3500.
EnergyLayout ==
    << U("produced_heating_today"), U("produced_heating_total_low"),
       U("produced_heating_total_high"), U("produced_water_today"),
       U("produced_water_total_low"), U("produced_water_total_high"),
       Skip(8), U("consumed_heating_today"), U("consumed_heating_total_low"),
       U("consumed_heating_total_high"), U("consumed_water_today"),
       U("consumed_water_total_low"), U("consumed_water_total_high") >>

\* The fields of the block from the words the walk decoded.
EnergyFields(w) ==
    [k \in {"PRODUCED_HEATING_TODAY", "PRODUCED_HEATING_TOTAL",
            "PRODUCED_WATER_HEATING_TODAY", "PRODUCED_WATER_HEATING_TOTAL",
            "CONSUMED_HEATING_TODAY", "CONSUMED_HEATING_TOTAL",
            "CONSUMED_WATER_HEATING_TODAY",
            "CONSUMED_WATER_HEATING_TOTAL"} |->
        CASE k = "PRODUCED_HEATING_TODAY" -> w["produced_heating_today"]
          [] k = "PRODUCED_HEATING_TOTAL" ->
               w["produced_heating_total_high"] * 1000
               + w["produced_heating_total_low"]
          [] k = "PRODUCED_WATER_HEATING_TODAY" -> w["produced_water_today"]
          [] k = "PRODUCED_WATER_HEATING_TOTAL" ->
               w["produced_water_total_high"] * 1000
               + w["produced_water_total_low"]
          [] k = "CONSUMED_HEATING_TODAY" -> w["consumed_heating_today"]
          [] k = "CONSUMED_HEATING_TOTAL" ->
               w["consumed_heating_total_high"] * 1000
               + w["consumed_heating_total_low"]
          [] k = "CONSUMED_WATER_HEATING_TODAY" -> w["consumed_water_today"]
          [] k = "CONSUMED_WATER_HEATING_TOTAL" ->
               w["consumed_water_total_high"] * 1000
               + w["consumed_water_total_low"]]

\* A walk that does not skip the NHZ registers.  It is
\* EnergyCountersAreCompound that tells the two apart.
EnergyLayoutWithoutGap ==
    << U("produced_heating_today"), U("produced_heating_total_low"),
       U("produced_heating_total_high"), U("produced_water_today"),
       U("produced_water_total_low"), U("produced_water_total_high"),
       U("consumed_heating_today"), U("consumed_heating_total_low"),
       U("consumed_heating_total_high"), U("consumed_water_today"),
       U("consumed_water_total_low"), U("consumed_water_total_high") >>

read_modbus_energy_without_gap(regs) ==
    IF Overruns(EnergyLayoutWithoutGap, regs) THEN Raised
    ELSE Ok(EnergyFields(Decoded(EnergyLayoutWithoutGap, regs)))

read_modbus_energy(regs) ==
    IF Overruns(EnergyLayout, regs) THEN Raised
    ELSE Ok(EnergyFields(Decoded(EnergyLayout, regs)))

\* read_modbus_sg_ready, first read (both families): the 2-word block at 5000.
SgStateLayout ==
    << U("SG_READY_STATE"), U("model") >>

\* The model name the second word selects.
ModelName(model_id) ==
    IF model_id = 390 THEN "WPM 3"
    ELSE IF model_id = 391 THEN "WPM 3i"
    ELSE IF model_id = 449 THEN "WPMsystem"
    ELSE "other model"

read_modbus_sg_ready_state(regs) ==
    IF Overruns(SgStateLayout, regs) THEN Raised
    ELSE LET w == Decoded(SgStateLayout, regs)
         IN  Ok([k \in {"SG_READY_STATE"} |-> w[k]])

\* A first word taken for the model id.
sg_ready_model_first_word(regs) ==
    ModelName(Decoded(SgStateLayout, regs)["SG_READY_STATE"])

\* self._model after the first read of read_modbus_sg_ready: the name the
\* second word of the block selects.
sg_ready_model(regs) == ModelName(Decoded(SgStateLayout, regs)["model"])

\* read_modbus_sg_ready, second read (both families): the 3-word block at 4000.
SgSwitchLayout ==
    << U("SG_READY_ACTIVE"), U("SG_READY_INPUT_1"), U("SG_READY_INPUT_2") >>

read_modbus_sg_ready_switch(regs) ==
    IF Overruns(SgSwitchLayout, regs) THEN Raised
    ELSE Ok(Decoded(SgSwitchLayout, regs))

(* --------------------- WPM family: block decoders --------------------- *)

\* read_modbus_system_state (WPM): the walk over the 47-word block at 2500.
WpmStateLayout ==
    << U("state"), Skip(4), U("ERROR_STATUS"), Skip(4), U("error"), Skip(2),
       U("HEATING_CIRCUIT_1_PUMP"), U("HEATING_CIRCUIT_2_PUMP"),
       U("HEATING_CIRCUIT_3_PUMP"), U("BUFFER_1_CHARGING_PUMP"),
       U("BUFFER_2_CHARGING_PUMP"), U("DHW_CHARGING_PUMP"), U("SOURCE_PUMP"),
       Skip(2), U("CIRCULATION_PUMP"), U("SECOND_GENERATOR_DHW"),
       U("SECOND_GENERATOR_HEATING"), U("COOLING_MODE"),
       U("MIXER_OPEN_HTG_CIRCUIT_2"), U("MIXER_CLOSE_HTG_CIRCUIT_2"),
       U("MIXER_OPEN_HTG_CIRCUIT_3"), U("MIXER_CLOSE_HTG_CIRCUIT_3"),
       U("EMERGENCY_HEATING_1"), U("EMERGENCY_HEATING_2"),
       U("EMERGENCY_HEATING_1_2"), U("HEATING_CIRCUIT_4_PUMP"),
       U("HEATING_CIRCUIT_5_PUMP"), U("BUFFER_3_CHARGING_PUMP"),
       U("BUFFER_4_CHARGING_PUMP"), U("BUFFER_5_CHARGING_PUMP"),
       U("BUFFER_6_CHARGING_PUMP"), U("DIFF_CONTROLLER_1_PUMP"),
       U("DIFF_CONTROLLER_2_PUMP"), U("POOL_PRIMARY_PUMP"),
       U("POOL_SECONDARY_PUMP"), U("MIXER_OPEN_HTG_CIRCUIT_4"),
       U("MIXER_CLOSE_HTG_CIRCUIT_4"), U("MIXER_OPEN_HTG_CIRCUIT_5"),
       U("MIXER_CLOSE_HTG_CIRCUIT_5"), U("HEAT_PUMP_1_ON"),
       U("HEAT_PUMP_2_ON"), U("HEAT_PUMP_3_ON"), U("HEAT_PUMP_4_ON"),
       U("HEAT_PUMP_5_ON"), U("HEAT_PUMP_6_ON") >>

WpmStateFlags ==
    [PUMP_ON_HK1 |-> 0, PUMP_ON_HK2 |-> 1, HEAT_UP_PROGRAM |-> 2,
     NHZ_STAGES_RUNNING |-> 3, IS_HEATING |-> 4, IS_HEATING_WATER |-> 5,
     COMPRESSOR_ON |-> 6, IS_SUMMER_MODE |-> 7, IS_COOLING |-> 8,
     EVAPORATOR_DEFROST |-> 9]

\* The status words whose branch reads result[KEY] without assigning it: the
\* lookup raises KeyError when the word is not 32768.
WpmStateUnassigned ==
    {"HEATING_CIRCUIT_1_PUMP", "HEATING_CIRCUIT_2_PUMP",
     "HEATING_CIRCUIT_3_PUMP", "BUFFER_1_CHARGING_PUMP",
     "BUFFER_2_CHARGING_PUMP", "DHW_CHARGING_PUMP", "SOURCE_PUMP"}

WpmStatusKeys == UintKeys(WpmStateLayout) \ {"state", "ERROR_STATUS", "error"}

ActiveError(error) ==
    IF error = 32768 THEN "no error" ELSE "error " \o ToString(error)

read_modbus_system_state_wpm(regs) ==
    IF Overruns(WpmStateLayout, regs) THEN Raised
    ELSE
    LET w == Decoded(WpmStateLayout, regs)
        present == {k \in WpmStatusKeys : w[k] # 32768}
    IN  IF present \cap WpmStateUnassigned # {} THEN Raised
        ELSE Ok([k \in DOMAIN WpmStateFlags \cup {"ERROR_STATUS", "ACTIVE_ERROR"}
                       \cup present |->
                 IF k \in DOMAIN WpmStateFlags THEN Bit(w["state"], WpmStateFlags[k])
                 ELSE IF k = "ACTIVE_ERROR" THEN ActiveError(w["error"])
                 ELSE w[k]])

\* read_modbus_system_values (WPM): the walk over the 111-word block at 500.
WpmValuesLayout ==
    << S("ACTUAL_TEMPERATURE", 10), S("TARGET_TEMPERATURE", 10),
       S("ACTUAL_TEMPERATURE_FEK", 10), S("TARGET_TEMPERATURE_FEK", 10),
       S("ACTUAL_HUMIDITY", 10), S("DEWPOINT_TEMPERATURE", 10),
       S("OUTDOOR_TEMPERATURE", 10), S("ACTUAL_TEMPERATURE_HK1", 10),
       Skip(2), S("TARGET_TEMPERATURE_HK1", 10),
       S("ACTUAL_TEMPERATURE_HK2", 10), S("TARGET_TEMPERATURE_HK2", 10),
       S("FLOW_TEMPERATURE", 10), S("FLOW_TEMPERATURE_NHZ", 10), Skip(2),
       S("RETURN_TEMPERATURE", 10), Skip(2),
       S("ACTUAL_TEMPERATURE_BUFFER", 10),
       S("TARGET_TEMPERATURE_BUFFER", 10), S("HEATER_PRESSURE", 100),
       S("VOLUME_STREAM", 100), S("ACTUAL_TEMPERATURE_WATER", 10),
       S("TARGET_TEMPERATURE_WATER", 10),
       S("ACTUAL_TEMPERATURE_COOLING_FANCOIL", 10),
       S("TARGET_TEMPERATURE_COOLING_FANCOIL", 10),
       S("ACTUAL_TEMPERATURE_COOLING_SURFACE", 10),
       S("TARGET_TEMPERATURE_COOLING_SURFACE", 10), Skip(16),
       S("SOURCE_TEMPERATURE", 10), Skip(2), S("SOURCE_PRESSURE", 100),
       S("HOT_GAS_TEMPERATURE", 10), S("HIGH_PRESSURE", 10),
       S("LOW_PRESSURE", 10), S("RETURN_TEMPERATURE_WP1", 10),
       S("FLOW_TEMPERATURE_WP1", 10), S("HOT_GAS_TEMPERATURE_WP1", 10),
       S("LOW_PRESSURE_WP1", 100), Skip(2), S("HIGH_PRESSURE_WP1", 100),
       S("VOLUME_STREAM_WP1", 10), S("RETURN_TEMPERATURE_WP2", 10),
       S("FLOW_TEMPERATURE_WP2", 10), S("HOT_GAS_TEMPERATURE_WP2", 10),
       S("LOW_PRESSURE_WP2", 100), Skip(2), S("HIGH_PRESSURE_WP2", 100),
       S("VOLUME_STREAM_WP2", 10), Skip(56),
       S("ACTUAL_ROOM_TEMPERATURE_HK1", 10),
       S("TARGET_ROOM_TEMPERATURE_HK1", 10), S("ACTUAL_HUMIDITY_HK1", 10),
       S("DEWPOINT_TEMPERATURE_HK1", 10),
       S("ACTUAL_ROOM_TEMPERATURE_HK2", 10),
       S("TARGET_ROOM_TEMPERATURE_HK2", 10), S("ACTUAL_HUMIDITY_HK2", 10),
       S("DEWPOINT_TEMPERATURE_HK2", 10),
       S("ACTUAL_ROOM_TEMPERATURE_HK3", 10),
       S("TARGET_ROOM_TEMPERATURE_HK3", 10), S("ACTUAL_HUMIDITY_HK3", 10),
       S("DEWPOINT_TEMPERATURE_HK3", 10), Skip(26),
       S("ACTUAL_TEMPERATURE_HK3", 10), S("TARGET_TEMPERATURE_HK3", 10) >>

read_modbus_system_values_wpm(regs) ==
    IF Overruns(WpmValuesLayout, regs) THEN Raised
    ELSE
    LET raw == Decoded(WpmValuesLayout, regs)
    IN  Ok([k \in DOMAIN raw |->
                get_isg_scaled_value_factor(raw[k], Divisor(WpmValuesLayout, k))]
           @@ [k \in {"system_values"} |-> regs])

\* read_modbus_system_paramter (WPM): the walk over the 19-word block at 1500.
WpmParamLayout ==
    << U("OPERATION_MODE"), S("COMFORT_TEMPERATURE_TARGET_HK1", 10),
       S("ECO_TEMPERATURE_TARGET_HK1", 10), S("HEATING_CURVE_RISE_HK1", 100),
       S("COMFORT_TEMPERATURE_TARGET_HK2", 10),
       S("ECO_TEMPERATURE_TARGET_HK2", 10), S("HEATING_CURVE_RISE_HK2", 100),
       Skip(2), S("DUALMODE_TEMPERATURE_HZG", 10),
       S("COMFORT_WATER_TEMPERATURE_TARGET", 10),
       S("ECO_WATER_TEMPERATURE_TARGET", 10), Skip(2),
       S("DUALMODE_TEMPERATURE_WW", 10),
       S("AREA_COOLING_TARGET_FLOW_TEMPERATURE", 10), Skip(2),
       S("AREA_COOLING_TARGET_ROOM_TEMPERATURE", 10),
       S("FAN_COOLING_TARGET_FLOW_TEMPERATURE", 10), Skip(2),
       S("FAN_COOLING_TARGET_ROOM_TEMPERATURE", 10) >>

read_modbus_system_paramter_wpm(regs) ==
    IF Overruns(WpmParamLayout, regs) THEN Raised
    ELSE
    LET raw == Decoded(WpmParamLayout, regs)
    IN  Ok([k \in DOMAIN raw |->
                IF k \in ScaledKeys(WpmParamLayout)
                THEN get_isg_scaled_value_factor(raw[k], Divisor(WpmParamLayout, k))
                ELSE raw[k]]
           @@ [k \in {"system_paramaters"} |-> regs])

(* ------------------------------ blocks -------------------------------- *)

Families == {"base", "wpm"}

\* A cycle that reads the system state before the energy counters.
BlocksStateFirst ==
    <<"state", "energy", "values", "param", "sg_state", "sg_switch">>

\* The block reads of one poll cycle, in the order read_modbus_data and
\* read_modbus_sg_ready issue them.
Blocks == <<"energy", "state", "values", "param", "sg_state", "sg_switch">>

BlockAddress(b) ==
    CASE b = "energy" -> 3500 [] b = "state" -> 2500 [] b = "values" -> 500
      [] b = "param" -> 1500 [] b = "sg_state" -> 5000 [] b = "sg_switch" -> 4000

BlockCount(fam, b) ==
    CASE b = "energy" -> 22
      [] b = "state" -> (IF fam = "wpm" THEN 47 ELSE 1)
      [] b = "values" -> (IF fam = "wpm" THEN 111 ELSE 40)
      [] b = "param" -> 19
      [] b = "sg_state" -> 2
      [] b = "sg_switch" -> 3

\* The unit every block read names (slave=1).
BlockUnit(b) == 1

\* read_holding_registers for the two holding blocks, read_input_registers
\* for the others.
BlockBank(b) == IF b \in {"param", "sg_switch"} THEN "holding" ELSE "input"

\* The walk the family's decoder makes over a block.
BlockLayout(fam, b) ==
    CASE b = "energy" -> EnergyLayout
      [] b = "state" -> (IF fam = "wpm" THEN WpmStateLayout ELSE BaseStateLayout)
      [] b = "values" -> (IF fam = "wpm" THEN WpmValuesLayout
                          ELSE BaseValuesLayout)
      [] b = "param" -> (IF fam = "wpm" THEN WpmParamLayout ELSE BaseParamLayout)
      [] b = "sg_state" -> SgStateLayout
      [] b = "sg_switch" -> SgSwitchLayout

\* The decoder the family's coordinator class runs on a block's registers.
Decode(fam, b, regs) ==
    CASE b = "energy" -> read_modbus_energy(regs)
      [] b = "state" -> (IF fam = "wpm" THEN read_modbus_system_state_wpm(regs)
                         ELSE read_modbus_system_state_base(regs))
      [] b = "values" -> (IF fam = "wpm" THEN read_modbus_system_values_wpm(regs)
                          ELSE read_modbus_system_values_base(regs))
      [] b = "param" -> (IF fam = "wpm" THEN read_modbus_system_paramter_wpm(regs)
                         ELSE read_modbus_system_paramter_base(regs))
      [] b = "sg_state" -> read_modbus_sg_ready_state(regs)
      [] b = "sg_switch" -> read_modbus_sg_ready_switch(regs)

\* The device images and one more, a controller of a model the integration
\* has no name for.
ModelImages == 1..(NumImages + 1)

\* What each block read of a family yields from each device image: the
\* registers of the response and what the block's decoder makes of them.
ResponseTable ==
    [fam \in Families |-> [b \in {Blocks[i] : i \in 1..Len(Blocks)} |->
        [k \in ModelImages |->
            Registers(k, BlockAddress(b), BlockCount(fam, b))]]]

DecodeTable ==
    [fam \in Families |-> [b \in {Blocks[i] : i \in 1..Len(Blocks)} |->
        [k \in ModelImages |-> Decode(fam, b, ResponseTable[fam][b][k])]]]

\* The registers a block read returns from a device that has stored the
\* words wr (address -> word) in its holding registers: the stored word
\* where there is one, the word of the image k elsewhere.
DeviceResponse(fam, b, k, wr) ==
    IF wr = EmptyDict \/ BlockBank(b) # "holding" THEN ResponseTable[fam][b][k]
    ELSE [i \in 1..BlockCount(fam, b) |->
             IF BlockAddress(b) + i - 1 \in DOMAIN wr
             THEN wr[BlockAddress(b) + i - 1]
             ELSE ResponseTable[fam][b][k][i]]

\* What the block's decoder makes of that response.
DeviceDecode(fam, b, k, wr) ==
    IF wr = EmptyDict \/ BlockBank(b) # "holding" THEN DecodeTable[fam][b][k]
    ELSE Decode(fam, b, DeviceResponse(fam, b, k, wr))

(* ------------------------------ set_data ------------------------------ *)

\* The write address of each key of set_data's if/elif chain.
BaseWriteAddress ==
    [SG_READY_ACTIVE |-> 4000, SG_READY_INPUT_1 |-> 4001,
     SG_READY_INPUT_2 |-> 4002, OPERATION_MODE |-> 1500]

WpmWriteAddress ==
    [SG_READY_ACTIVE |-> 4000, SG_READY_INPUT_1 |-> 4001,
     SG_READY_INPUT_2 |-> 4002, OPERATION_MODE |-> 1500,
     COMFORT_TEMPERATURE_TARGET_HK1 |-> 1501,
     ECO_TEMPERATURE_TARGET_HK1 |-> 1502,
     HEATING_CURVE_RISE_HK1 |-> 1503,
     COMFORT_TEMPERATURE_TARGET_HK2 |-> 1504,
     ECO_TEMPERATURE_TARGET_HK2 |-> 1505,
     HEATING_CURVE_RISE_HK2 |-> 1506,
     DUALMODE_TEMPERATURE_HZG |-> 1508,
     COMFORT_WATER_TEMPERATURE_TARGET |-> 1509,
     ECO_WATER_TEMPERATURE_TARGET |-> 1510,
     DUALMODE_TEMPERATURE_WW |-> 1512,
     AREA_COOLING_TARGET_FLOW_TEMPERATURE |-> 1513,
     AREA_COOLING_TARGET_ROOM_TEMPERATURE |-> 1515,
     FAN_COOLING_TARGET_FLOW_TEMPERATURE |-> 1516,
     FAN_COOLING_TARGET_ROOM_TEMPERATURE |-> 1518,
     CIRCULATION_PUMP |-> 47012]

\* The factor of int(value * factor) in the WPM chain; 1 where the value is
\* passed as it is.
WpmWriteScale(key) ==
    IF key \in {"HEATING_CURVE_RISE_HK1", "HEATING_CURVE_RISE_HK2"} THEN 100
    ELSE IF key \in {"SG_READY_ACTIVE", "SG_READY_INPUT_1", "SG_READY_INPUT_2",
                     "OPERATION_MODE", "CIRCULATION_PUMP"} THEN 1
    ELSE 10

WriteAddressTable(fam) == IF fam = "wpm" THEN WpmWriteAddress ELSE BaseWriteAddress

\* The keys for which set_data of the family's class does not take the
\* final else: return.
WritableKeys(fam) == DOMAIN WriteAddressTable(fam)

WriteAddress(fam, key) == WriteAddressTable(fam)[key]

WriteScale(fam, key) == IF fam = "wpm" THEN WpmWriteScale(key) ELSE 1

\* The caller values (in thousandths) and factors whose product as a double
\* lies below the exact product in magnitude: 1.15 * 100 is
\* 114.99999999999999 and -1.15 * 100 is -114.99999999999999.  For every
\* other value the callers of the model pass, the double product truncates
\* as the exact one does.
ShortDoubles == {<<1150, 100>>, <<-1150, 100>>}

\* value * factor of Python floats, in thousandths of a register word.
FloatProduct(value, factor) ==
    IF <<value, factor>> \in ShortDoubles
    THEN (IF value > 0 THEN value * factor - 1 ELSE value * factor + 1)
    ELSE value * factor

\* The value set_data hands to write_register.  A scaled key's value is a
\* float (in thousandths): int(value * factor).  Any other key's value is
\* handed on as it is.
WriteWord(fam, key, value) ==
    IF WriteScale(fam, key) = 1 THEN value
    ELSE TruncDiv(FloatProduct(value, WriteScale(fam, key)), 1000)

\* The unit every write_register call of set_data names (slave=1).
WriteUnit(fam, key) == 1

(* ------------------------------- state -------------------------------- *)

VARIABLES
    family,     \* which coordinator class the entry instantiated
    dev,        \* the device memory image the device presents
    faulty,     \* the blocks whose read the device answers with an error
    connected,  \* the ModbusTcpClient holds an open socket
    lock,       \* self._lock: "free" or the holder
    inflight,   \* who is inside a call of self._client
    data,       \* self.data, the snapshot
    model,      \* self._model
    ready,      \* the first refresh succeeded; entities exist
    timerDue,   \* a refresh is due (the interval elapsed or setup asked)
    pollpc,     \* position of _async_update_data / read_modbus_data
    blk,        \* index in Blocks of the block being read
    result,     \* the fields the blocks of this cycle returned so far
    prev,       \* the snapshot when the cycle started
    outcomes,   \* what each block read of the current or last cycle did
    lastUpdate, \* how the last finished cycle ended
    failures,   \* UpdateFailed raised to the host by the last finished cycle
    cycles,     \* poll cycles running
    published,  \* what the last published cycle read and returned
    wpc,        \* position of each writer's set_data call
    wkey,       \* its key
    wval,       \* its value
    wlog,       \* the write_register calls it issued
    wresp,      \* the response of its write_registers call
    last,       \* the set_data call that ended last
    nsets,      \* set_data calls since the last publication
    written,    \* the holding-register words the device stored from writes
    hpc,        \* the host's connect() or close() call
    rpc         \* position of async_reset_heatpump

vars == <<family, dev, faulty, connected, lock, inflight, data, model, ready,
          timerDue, pollpc, blk, result, prev, outcomes, lastUpdate, failures,
          cycles, published, wpc, wkey, wval, wlog, wresp, last, nsets, written,
          hpc, rpc>>

pollVars == <<timerDue, pollpc, blk, result, prev, outcomes, lastUpdate,
              failures, cycles, published>>
writerVars == <<wpc, wkey, wval, wlog, wresp, last, nsets, written>>

\* The threads of the host's executor that run set_data.
Writers == {"w1", "w2"}

BlockSet == {Blocks[i] : i \in 1..Len(Blocks)}

\* VERSION of const.py, the model name before the first read of block 5000.
VersionName == "VERSION"

NoOutcomes == [b \in BlockSet |-> "none"]

\* The sets of blocks a device can answer with an error response: none,
\* any one block, or every block.
FaultPlans == {{}} \cup {{b} : b \in BlockSet} \cup {BlockSet}

\* A set_data call that ended: what it was called with, the write_register
\* calls it made, the response it got, how it ended and whether it stored
\* into the snapshot.
SetRecord(key, value, writes, resp, res, stored) ==
    [key |-> key, value |-> value, writes |-> writes, resp |-> resp,
     res |-> res, stored |-> stored]

NoCall == SetRecord("none", 0, <<>>, "none", "none", FALSE)

\* A published cycle: the device image and the failing blocks it met, the
\* model name it left and the dict it returned.
Publication(k, f, name, dict) ==
    [dev |-> k, faulty |-> f, model |-> name, data |-> dict]

NoPublication == Publication(0, {}, "none", EmptyDict)

Init ==
    /\ family \in Families
    /\ dev \in 1..NumImages
    /\ faulty \in FaultPlans
    /\ connected = FALSE
    /\ lock = "free"
    /\ inflight = {}
    /\ data = EmptyDict
    /\ model = VersionName
    /\ ready = FALSE
    /\ timerDue = TRUE
    /\ pollpc = "idle"
    /\ blk = 1
    /\ result = EmptyDict
    /\ prev = EmptyDict
    /\ outcomes = NoOutcomes
    /\ lastUpdate = "none"
    /\ failures = 0
    /\ cycles = 0
    /\ published = NoPublication
    /\ wpc = [w \in Writers |-> "idle"]
    /\ wkey = [w \in Writers |-> "none"]
    /\ wval = [w \in Writers |-> 0]
    /\ wlog = [w \in Writers |-> <<>>]
    /\ wresp = [w \in Writers |-> "none"]
    /\ last = NoCall
    /\ nsets = 0
    /\ written = EmptyDict
    /\ hpc = "idle"
    /\ rpc = "idle"

(* ------------------------- the transport lock ------------------------- *)

\* A client call that does not wait for the lock.  It is MutualExclusion that
\* tells the two apart.
AcquireWithoutWaiting(who) ==
    /\ lock' = who
    /\ inflight' = inflight \cup {who}

\* with self._lock: entry.  The caller blocks until the lock is free.
Acquire(who) ==
    /\ lock = "free"
    /\ lock' = who
    /\ inflight' = inflight \cup {who}

\* with self._lock: exit after the client call returned.
Release(who) ==
    /\ lock' = (IF lock = who THEN "free" ELSE lock)
    /\ inflight' = inflight \ {who}

\* A critical section that keeps the lock when the client call raised (an
\* acquire() with a release() that is skipped by the exception).  It is
\* PollingNeverStops that tells the two apart.
ReleaseSkippedOnRaise(who) ==
    /\ lock' = lock
    /\ inflight' = inflight \ {who}

\* with self._lock: exit when the client call raised.
ReleaseOnRaise(who) ==
    /\ lock' = (IF lock = who THEN "free" ELSE lock)
    /\ inflight' = inflight \ {who}

(* --------------------------- the poll cycle --------------------------- *)

\* A refresh entered whenever it is due, also while a cycle is running.  It
\* is OneCycleAtATime that tells the two apart.
CanStartCycleAnytime == rpc = "idle"

\* _async_update_data holds no await: once the event loop has entered it, the
\* loop runs nothing else (no other refresh, no async_reset_heatpump) until
\* it returns.  A refresh that falls due meanwhile stays due.
CanStartCycle == pollpc = "idle" /\ rpc = "idle"

\* The interval elapses, or a refresh is requested, while a cycle is running.
TimerTick ==
    /\ ~timerDue
    /\ timerDue' = TRUE
    /\ UNCHANGED <<family, dev, faulty, connected, lock, inflight, data, model,
                   ready, pollpc, blk, result, prev, outcomes, lastUpdate,
                   failures, cycles, hpc, rpc>>
    /\ UNCHANGED writerVars
    /\ UNCHANGED published

\* The event loop enters _async_update_data, which calls read_modbus_data.
StartCycle ==
    /\ timerDue
    /\ CanStartCycle
    /\ timerDue' = FALSE
    /\ pollpc' = "want"
    /\ blk' = 1
    /\ result' = EmptyDict
    /\ prev' = data
    /\ outcomes' = NoOutcomes
    /\ failures' = 0
    /\ cycles' = cycles + 1
    /\ UNCHANGED <<family, dev, faulty, connected, lock, inflight, data, model,
                   ready, lastUpdate, hpc, rpc>>
    /\ UNCHANGED writerVars
    /\ UNCHANGED published

\* read_input_registers / read_holding_registers: the cycle takes the lock
\* for the read of block blk.
PollAcquire ==
    /\ pollpc = "want"
    /\ Acquire("poll")
    /\ pollpc' = "reading"
    /\ UNCHANGED <<family, dev, faulty, connected, data, model, ready, timerDue,
                   blk, result, prev, outcomes, lastUpdate, failures, cycles,
                   hpc, rpc>>
    /\ UNCHANGED writerVars
    /\ UNCHANGED published

\* A failure that resets the snapshot.  It is FailedCycleKeepsSnapshot that
\* tells the two apart.
UpdateFailedResets ==
    /\ data' = EmptyDict
    /\ failures' = failures + 1
    /\ lastUpdate' = "failed"

\* except Exception: raise UpdateFailed.  The host keeps self.data as it
\* was, counts one failed update and schedules the next refresh.
UpdateFailed ==
    /\ data' = data
    /\ failures' = failures + 1
    /\ lastUpdate' = "failed"

\* The exception leaves read_modbus_data and _async_update_data.  When the
\* first refresh fails, async_setup_entry raises ConfigEntryNotReady and the
\* host sets the entry up again later, with a new coordinator object.
AbortCycle(how) ==
    /\ UpdateFailed
    /\ outcomes' = [outcomes EXCEPT ![Blocks[blk]] = how]
    /\ pollpc' = "idle"
    /\ blk' = 1
    /\ cycles' = cycles - 1
    /\ timerDue' = TRUE
    /\ result' = EmptyDict
    /\ prev' = EmptyDict
    /\ model' = (IF ready THEN model ELSE VersionName)
    /\ UNCHANGED <<family, dev, faulty, ready, hpc, rpc>>
    /\ UNCHANGED writerVars
    /\ UNCHANGED published

\* The cycle goes on to the next block read, or returns its result.
Advance ==
    /\ pollpc' = (IF blk < Len(Blocks) THEN "want" ELSE "publish")
    /\ blk' = (IF blk < Len(Blocks) THEN blk + 1 ELSE blk)

\* The client has no open socket and cannot open one: the read raises
\* inside the lock.
PollReadConnectFailed ==
    /\ pollpc = "reading"
    /\ ~connected
    /\ ReleaseOnRaise("poll")
    /\ connected' = FALSE
    /\ AbortCycle("raised")

\* An error response that ends the cycle as a failure.  It is
\* ErrorResponseDoesNotAbort that tells the two apart.
PollReadErrorAborts ==
    /\ pollpc = "reading"
    /\ Blocks[blk] \in faulty
    /\ Release("poll")
    /\ connected' = TRUE
    /\ AbortCycle("error")

\* The read returns an error response: isError() holds, the block
\* contributes nothing.
PollReadError ==
    /\ pollpc = "reading"
    /\ Blocks[blk] \in faulty
    /\ Release("poll")
    /\ connected' = TRUE
    /\ outcomes' = [outcomes EXCEPT ![Blocks[blk]] = "error"]
    /\ Advance
    /\ UNCHANGED <<family, dev, faulty, data, model, ready, timerDue, result,
                   prev, lastUpdate, failures, cycles, hpc, rpc>>
    /\ UNCHANGED writerVars
    /\ UNCHANGED published

\* A block read that merges the block's fields into self.data as soon as
\* they are decoded.
PollReadOkInPlace ==
    /\ pollpc = "reading"
    /\ Blocks[blk] \notin faulty
    /\ LET b == Blocks[blk]
           regs == DeviceResponse(family, b, dev, written)
           d == DeviceDecode(family, b, dev, written)
       IN  /\ ~d.raised
           /\ result' = d.fields @@ result
           /\ data' = d.fields @@ data
           /\ model' = (IF b = "sg_state" THEN sg_ready_model(regs) ELSE model)
           /\ outcomes' = [outcomes EXCEPT ![b] = "ok"]
    /\ Release("poll")
    /\ connected' = TRUE
    /\ Advance
    /\ UNCHANGED <<family, dev, faulty, ready, timerDue, prev, lastUpdate,
                   failures, cycles, hpc, rpc>>
    /\ UNCHANGED writerVars
    /\ UNCHANGED published

\* The read returns the registers and the block's decoder returns its dict.
PollReadOk ==
    /\ pollpc = "reading"
    /\ Blocks[blk] \notin faulty
    /\ LET b == Blocks[blk]
           regs == DeviceResponse(family, b, dev, written)
           d == DeviceDecode(family, b, dev, written)
       IN  /\ ~d.raised
           /\ result' = d.fields @@ result
           /\ model' = (IF b = "sg_state" THEN sg_ready_model(regs) ELSE model)
           /\ outcomes' = [outcomes EXCEPT ![b] = "ok"]
    /\ Release("poll")
    /\ connected' = TRUE
    /\ Advance
    /\ UNCHANGED <<family, dev, faulty, data, ready, timerDue, prev, lastUpdate,
                   failures, cycles, hpc, rpc>>
    /\ UNCHANGED writerVars
    /\ UNCHANGED published

\* The read returns the registers and the block's decoder raises.
PollReadDecodeRaised ==
    /\ pollpc = "reading"
    /\ Blocks[blk] \notin faulty
    /\ DeviceDecode(family, Blocks[blk], dev, written).raised
    /\ Release("poll")
    /\ connected' = TRUE
    /\ AbortCycle("decode_raised")

\* A publication that keeps the entries self.data already holds and only
\* adds the keys of the returned dict that are new.
PublishKeepsExisting ==
    /\ pollpc = "publish"
    /\ data' = data @@ result
    /\ ready' = TRUE
    /\ lastUpdate' = "ok"
    /\ pollpc' = "idle"
    /\ blk' = 1
    /\ cycles' = cycles - 1
    /\ nsets' = 0
    /\ timerDue' = TRUE
    /\ result' = EmptyDict
    /\ prev' = EmptyDict
    /\ published' = Publication(dev, faulty, model, data @@ result)
    /\ UNCHANGED <<family, dev, faulty, connected, lock, inflight, model,
                   outcomes, failures, hpc, rpc>>
    /\ UNCHANGED <<wpc, wkey, wval, wlog, wresp, last, written>>

\* read_modbus_data returned: the DataUpdateCoordinator stores the returned
\* dict as self.data and schedules the next refresh.
Publish ==
    /\ pollpc = "publish"
    /\ data' = result
    /\ ready' = TRUE
    /\ lastUpdate' = "ok"
    /\ pollpc' = "idle"
    /\ blk' = 1
    /\ cycles' = cycles - 1
    /\ nsets' = 0
    /\ timerDue' = TRUE
    /\ result' = EmptyDict
    /\ prev' = EmptyDict
    /\ published' = Publication(dev, faulty, model, result)
    /\ UNCHANGED <<family, dev, faulty, connected, lock, inflight, model,
                   outcomes, failures, hpc, rpc>>
    /\ UNCHANGED <<wpc, wkey, wval, wlog, wresp, last, written>>

\* The values in the device's registers change (between two cycles).
DeviceChange ==
    /\ pollpc = "idle"
    /\ \E k \in 1..NumImages : k # dev /\ dev' = k
    /\ UNCHANGED <<family, faulty, connected, lock, inflight, data, model,
                   ready, hpc, rpc>>
    /\ UNCHANGED pollVars
    /\ UNCHANGED writerVars

\* The blocks the device answers with an error change (between two cycles).
FaultChange ==
    /\ pollpc = "idle"
    /\ \E f \in FaultPlans : f # faulty /\ faulty' = f
    /\ UNCHANGED <<family, dev, connected, lock, inflight, data, model, ready,
                   hpc, rpc>>
    /\ UNCHANGED pollVars
    /\ UNCHANGED writerVars

\* The socket is lost while no call is inside the client.
ConnectionLost ==
    /\ connected
    /\ inflight = {}
    /\ connected' = FALSE
    /\ UNCHANGED <<family, dev, faulty, lock, inflight, data, model, ready,
                   hpc, rpc>>
    /\ UNCHANGED pollVars
    /\ UNCHANGED writerVars

NextPoll ==
    \/ StartCycle
    \/ PollAcquire
    \/ PollReadConnectFailed
    \/ PollReadError
    \/ PollReadOk
    \/ PollReadDecodeRaised
    \/ Publish
    \/ DeviceChange
    \/ FaultChange
    \/ ConnectionLost

\* The coordinator with no collaborator calling set_data.
SpecPoll == Init /\ [][NextPoll]_vars

\* The controller is replaced by another one, of any model.
ModelDeviceChange ==
    /\ pollpc = "idle"
    /\ \E k \in ModelImages : k # dev /\ dev' = k
    /\ UNCHANGED <<family, faulty, connected, lock, inflight, data, model,
                   ready, hpc, rpc>>
    /\ UNCHANGED pollVars
    /\ UNCHANGED writerVars

\* The read of the block at 5000 starts or stops failing.
ModelFaults == {{}, {"sg_state"}}

ModelFaultChange ==
    /\ pollpc = "idle"
    /\ \E f \in ModelFaults : f # faulty /\ faulty' = f
    /\ UNCHANGED <<family, dev, connected, lock, inflight, data, model, ready,
                   hpc, rpc>>
    /\ UNCHANGED pollVars
    /\ UNCHANGED writerVars

InitModel ==
    /\ Init
    /\ faulty \in ModelFaults

NextModel ==
    \/ StartCycle
    \/ PollAcquire
    \/ PollReadConnectFailed
    \/ PollReadError
    \/ PollReadOk
    \/ PollReadDecodeRaised
    \/ Publish
    \/ ModelDeviceChange
    \/ ModelFaultChange
    \/ ConnectionLost

\* The poll cycles of a coordinator whose controller is replaced by
\* controllers of every model, named or not.
SpecModel == InitModel /\ [][NextModel]_vars

(* ------------------------------ set_data ------------------------------ *)

\* The values a caller passes for a key: a register value for the keys
\* passed on as they are, a float (in thousandths) for the scaled keys.
SetValues(fam, key) ==
    IF key \in WritableKeys(fam) /\ WriteScale(fam, key) # 1
    THEN {21500, -5500, 4000000}
    ELSE {2, 5}

\* Field ids no family writes.
UnknownKeys == {"unknown_field"}

AllSetKeys == WritableKeys("wpm") \cup UnknownKeys

\* The writer's call has ended: its thread is free for the next call.
WriterDone(w) ==
    /\ wpc' = [wpc EXCEPT ![w] = "idle"]
    /\ wkey' = [wkey EXCEPT ![w] = "none"]
    /\ wval' = [wval EXCEPT ![w] = 0]
    /\ wlog' = [wlog EXCEPT ![w] = <<>>]
    /\ wresp' = [wresp EXCEPT ![w] = "none"]

\* A set_data that stores the value of a key it does not write.  It is
\* UnknownKeyIsNoop that tells the two apart.
SetNoopStores(w, key, value) ==
    /\ ready
    /\ wpc[w] = "idle"
    /\ nsets < MaxSets
    /\ key \notin WritableKeys(family)
    /\ data' = [k \in {key} |-> value] @@ data
    /\ last' = SetRecord(key, value, <<>>, "none", "returned", FALSE)
    /\ nsets' = nsets + 1
    /\ UNCHANGED <<family, dev, faulty, connected, lock, inflight, model, ready,
                   wpc, wkey, wval, wlog, wresp, hpc, rpc>>
    /\ UNCHANGED pollVars
    /\ UNCHANGED written

\* set_data with a key of no branch of the chain: else: return.
SetNoop(w, key, value) ==
    /\ ready
    /\ wpc[w] = "idle"
    /\ nsets < MaxSets
    /\ key \notin WritableKeys(family)
    /\ last' = SetRecord(key, value, <<>>, "none", "returned", FALSE)
    /\ nsets' = nsets + 1
    /\ UNCHANGED <<family, dev, faulty, connected, lock, inflight, data, model,
                   ready, wpc, wkey, wval, wlog, wresp, hpc, rpc>>
    /\ UNCHANGED pollVars
    /\ UNCHANGED written

\* set_data with a key of the chain: the branch calls write_register.
SetCall(w, key, value) ==
    /\ ready
    /\ wpc[w] = "idle"
    /\ nsets < MaxSets
    /\ key \in WritableKeys(family)
    /\ wpc' = [wpc EXCEPT ![w] = "want"]
    /\ wkey' = [wkey EXCEPT ![w] = key]
    /\ wval' = [wval EXCEPT ![w] = value]
    /\ nsets' = nsets + 1
    /\ UNCHANGED <<family, dev, faulty, connected, lock, inflight, data, model,
                   ready, wlog, wresp, last, hpc, rpc>>
    /\ UNCHANGED pollVars
    /\ UNCHANGED written

\* write_register: the writer takes the lock and calls write_registers.
WriteBegin(w) ==
    /\ wpc[w] = "want"
    /\ Acquire(w)
    /\ wpc' = [wpc EXCEPT ![w] = "writing"]
    /\ wlog' = [wlog EXCEPT ![w] = Append(@,
                  [unit |-> WriteUnit(family, wkey[w]),
                   address |-> WriteAddress(family, wkey[w]),
                   value |-> WriteWord(family, wkey[w], wval[w])])]
    /\ UNCHANGED <<family, dev, faulty, connected, data, model, ready, wkey,
                   wval, wresp, last, nsets, hpc, rpc>>
    /\ UNCHANGED pollVars
    /\ UNCHANGED written

\* The client cannot open a socket: write_registers raises, the exception
\* leaves write_register and set_data.
WriteConnectFailed(w) ==
    /\ wpc[w] = "writing"
    /\ ~connected
    /\ ReleaseOnRaise(w)
    /\ last' = SetRecord(wkey[w], wval[w], wlog[w], "none", "raised", FALSE)
    /\ WriterDone(w)
    /\ UNCHANGED <<family, dev, faulty, connected, data, model, ready, nsets,
                   hpc, rpc>>
    /\ UNCHANGED pollVars
    /\ UNCHANGED written

\* write_registers returns a response, a write response or an error
\* response: write_register returns it and set_data drops it.
WriteReturns(w, resp) ==
    /\ wpc[w] = "writing"
    /\ Release(w)
    /\ connected' = TRUE
    /\ wpc' = [wpc EXCEPT ![w] = "update"]
    /\ wresp' = [wresp EXCEPT ![w] = resp]
    /\ UNCHANGED <<family, dev, faulty, data, model, ready, wkey, wval, wlog,
                   last, nsets, hpc, rpc>>
    /\ UNCHANGED pollVars
    /\ UNCHANGED written

\* write_registers returns a write response from a device that stores the
\* word: the holding register at the address holds the 16 bits written.
WriteStored(w) ==
    /\ wpc[w] = "writing"
    /\ Release(w)
    /\ connected' = TRUE
    /\ wpc' = [wpc EXCEPT ![w] = "update"]
    /\ wresp' = [wresp EXCEPT ![w] = "ok"]
    /\ written' = [a \in {WriteAddress(family, wkey[w])} |->
                      WriteWord(family, wkey[w], wval[w]) % 65536] @@ written
    /\ UNCHANGED <<family, dev, faulty, data, model, ready, wkey, wval, wlog,
                   last, nsets, hpc, rpc>>
    /\ UNCHANGED pollVars

\* A set_data that stores the register word it wrote.  It is
\* SetWritesOnceAndStoresRaw that tells the two apart.
SetStoreWord(w) ==
    data' = [k \in {wkey[w]} |-> WriteWord(family, wkey[w], wval[w])] @@ data

\* self.data[key] = value, the last statement of set_data.
SetStore(w) == data' = [k \in {wkey[w]} |-> wval[w]] @@ data

\* set_data stores the value and returns None.
SetUpdate(w) ==
    /\ wpc[w] = "update"
    /\ SetStore(w)
    /\ last' = SetRecord(wkey[w], wval[w], wlog[w], wresp[w], "returned", TRUE)
    /\ WriterDone(w)
    /\ UNCHANGED <<family, dev, faulty, connected, lock, inflight, model, ready,
                   nsets, hpc, rpc>>
    /\ UNCHANGED pollVars
    /\ UNCHANGED written

(* ------------------------- connect and close -------------------------- *)

\* connect() or close(): the host's thread takes the lock.
HostBegin(op) ==
    /\ ready
    /\ hpc = "idle"
    /\ Acquire("host")
    /\ hpc' = op
    /\ UNCHANGED <<family, dev, faulty, connected, data, model, ready, rpc>>
    /\ UNCHANGED pollVars
    /\ UNCHANGED writerVars

\* self._client.connect() returns, with or without an open socket.
HostConnectEnd(opened) ==
    /\ hpc = "connect"
    /\ Release("host")
    /\ connected' = (connected \/ opened)
    /\ hpc' = "idle"
    /\ UNCHANGED <<family, dev, faulty, data, model, ready, rpc>>
    /\ UNCHANGED pollVars
    /\ UNCHANGED writerVars

\* self._client.close() returns.
HostCloseEnd ==
    /\ hpc = "close"
    /\ Release("host")
    /\ connected' = FALSE
    /\ hpc' = "idle"
    /\ UNCHANGED <<family, dev, faulty, data, model, ready, rpc>>
    /\ UNCHANGED pollVars
    /\ UNCHANGED writerVars

(* ------------------------ async_reset_heatpump ------------------------ *)

\* The button of the WPM family is pressed: the event loop enters
\* async_reset_heatpump, which calls write_register(1519, 3, 1).
ResetCall ==
    /\ family = "wpm"
    /\ ready
    /\ pollpc = "idle"
    /\ rpc = "idle"
    /\ rpc' = "want"
    /\ UNCHANGED <<family, dev, faulty, connected, lock, inflight, data, model,
                   ready, hpc>>
    /\ UNCHANGED pollVars
    /\ UNCHANGED writerVars

ResetBegin ==
    /\ rpc = "want"
    /\ Acquire("reset")
    /\ rpc' = "writing"
    /\ UNCHANGED <<family, dev, faulty, connected, data, model, ready, hpc>>
    /\ UNCHANGED pollVars
    /\ UNCHANGED writerVars

\* write_registers returns or raises; either way the coroutine ends.
ResetEnd(opened) ==
    /\ rpc = "writing"
    /\ IF opened THEN Release("reset") ELSE ReleaseOnRaise("reset")
    /\ connected' = (connected \/ opened)
    /\ opened \/ ~connected
    /\ rpc' = "idle"
    /\ UNCHANGED <<family, dev, faulty, data, model, ready, hpc>>
    /\ UNCHANGED pollVars
    /\ UNCHANGED writerVars

(* --------------------------- specifications --------------------------- *)

\* The keys and values the collaborators of the full system pass to set_data.
HostKeys == {"OPERATION_MODE", "unknown_field"}
HostValues == {2}

Next ==
    \/ TimerTick
    \/ StartCycle
    \/ PollAcquire
    \/ PollReadConnectFailed
    \/ PollReadError
    \/ PollReadOk
    \/ PollReadDecodeRaised
    \/ Publish
    \/ ConnectionLost
    \/ \E w \in Writers, key \in HostKeys, value \in HostValues :
          SetNoop(w, key, value)
    \/ \E w \in Writers, key \in HostKeys, value \in HostValues :
          SetCall(w, key, value)
    \/ \E w \in Writers : WriteBegin(w)
    \/ \E w \in Writers : WriteConnectFailed(w)
    \/ \E w \in Writers, resp \in {"ok", "error"} : WriteReturns(w, resp)
    \/ \E w \in Writers : SetUpdate(w)
    \/ \E op \in {"connect", "close"} : HostBegin(op)
    \/ \E opened \in BOOLEAN : HostConnectEnd(opened)
    \/ HostCloseEnd
    \/ ResetCall
    \/ ResetBegin
    \/ \E opened \in BOOLEAN : ResetEnd(opened)

\* The devices the full system is run against: one whose registers decode,
\* one whose registers make a decoder raise; all blocks answered, or the
\* first block answered with an error response.
HostImages == {1, 3}
HostFaults == {{}, {"energy"}}

InitHost ==
    /\ Init
    /\ dev \in HostImages
    /\ faulty \in HostFaults

\* The coordinator with its collaborators: the host's timer, the entities
\* calling set_data from executor threads, connect/close and the reset button.
Spec == InitHost /\ [][Next]_vars

\* What read_modbus_data returns for a device image when the blocks of f
\* answer with an error response: {**energy, **state, **values, **param,
\* **sg_ready} over the blocks that answered.
BlockFields(fam, k, f, b) ==
    IF b \in f THEN EmptyDict ELSE DecodeTable[fam][b][k].fields

CycleResult(fam, k, f) ==
    BlockFields(fam, k, f, "sg_switch") @@ BlockFields(fam, k, f, "sg_state")
    @@ BlockFields(fam, k, f, "param") @@ BlockFields(fam, k, f, "values")
    @@ BlockFields(fam, k, f, "state") @@ BlockFields(fam, k, f, "energy")

\* No decoder raises on the image.
Decodable(fam, k) == \A b \in BlockSet : ~DecodeTable[fam][b][k].raised

\* The coordinator after a refresh of a device that answered every block:
\* the state in which the entities start calling set_data.
InitSet ==
    /\ family \in Families
    /\ dev \in {k \in 1..NumImages : Decodable(family, k)}
    /\ faulty = {}
    /\ connected = TRUE
    /\ lock = "free"
    /\ inflight = {}
    /\ data = CycleResult(family, dev, faulty)
    /\ model = sg_ready_model(ResponseTable[family]["sg_state"][dev])
    /\ ready = TRUE
    /\ timerDue = TRUE
    /\ pollpc = "idle"
    /\ blk = 1
    /\ result = EmptyDict
    /\ prev = EmptyDict
    /\ outcomes = [b \in BlockSet |-> "ok"]
    /\ lastUpdate = "ok"
    /\ failures = 0
    /\ cycles = 0
    /\ published = Publication(dev, faulty, model, data)
    /\ wpc = [w \in Writers |-> "idle"]
    /\ wkey = [w \in Writers |-> "none"]
    /\ wval = [w \in Writers |-> 0]
    /\ wlog = [w \in Writers |-> <<>>]
    /\ wresp = [w \in Writers |-> "none"]
    /\ last = NoCall
    /\ nsets = 0
    /\ written = EmptyDict
    /\ hpc = "idle"
    /\ rpc = "idle"

\* One entity at a time calls set_data, with any key and value, between two
\* refreshes.
NextSet ==
    \/ \E key \in AllSetKeys : \E value \in SetValues(family, key) :
          SetNoop("w1", key, value)
    \/ \E key \in AllSetKeys : \E value \in SetValues(family, key) :
          SetCall("w1", key, value)
    \/ WriteBegin("w1")
    \/ WriteConnectFailed("w1")
    \/ \E resp \in {"ok", "error"} : WriteReturns("w1", resp)
    \/ SetUpdate("w1")
    \/ ConnectionLost

SpecSet == InitSet /\ [][NextSet]_vars

\* The full system with one executor thread calling set_data, against a
\* device that answers the first block with an error response.
LiveWriters == {"w1"}

InitLive ==
    /\ Init
    /\ dev \in HostImages
    /\ faulty = {"energy"}

NextLive ==
    \/ TimerTick
    \/ StartCycle
    \/ PollAcquire
    \/ PollReadConnectFailed
    \/ PollReadError
    \/ PollReadOk
    \/ PollReadDecodeRaised
    \/ Publish
    \/ ConnectionLost
    \/ \E w \in LiveWriters, key \in HostKeys, value \in HostValues :
          SetNoop(w, key, value)
    \/ \E w \in LiveWriters, key \in HostKeys, value \in HostValues :
          SetCall(w, key, value)
    \/ \E w \in LiveWriters : WriteBegin(w)
    \/ \E w \in LiveWriters : WriteConnectFailed(w)
    \/ \E w \in LiveWriters, resp \in {"ok", "error"} : WriteReturns(w, resp)
    \/ \E w \in LiveWriters : SetUpdate(w)
    \/ \E op \in {"connect", "close"} : HostBegin(op)
    \/ \E opened \in BOOLEAN : HostConnectEnd(opened)
    \/ HostCloseEnd
    \/ ResetCall
    \/ ResetBegin
    \/ \E opened \in BOOLEAN : ResetEnd(opened)

\* What the scheduling gives.  The event loop runs every callback that is
\* ready, so a due refresh is entered once the loop is free; a thread that
\* waits for the lock gets it when the lock keeps being released; a call
\* inside the client returns or raises (the client has a timeout); a
\* coroutine that can return does.
Fairness ==
    /\ SF_vars(StartCycle)
    /\ SF_vars(PollAcquire)
    /\ WF_vars(PollReadConnectFailed \/ PollReadError \/ PollReadOk
                  \/ PollReadDecodeRaised)
    /\ WF_vars(Publish)
    /\ \A w \in LiveWriters :
          WF_vars(WriteConnectFailed(w) \/ \E resp \in {"ok", "error"} :
                                               WriteReturns(w, resp))
    /\ WF_vars(\E opened \in BOOLEAN : HostConnectEnd(opened))
    /\ WF_vars(HostCloseEnd)
    /\ SF_vars(ResetBegin)
    /\ WF_vars(\E opened \in BOOLEAN : ResetEnd(opened))

FairSpec == InitLive /\ [][NextLive]_vars /\ Fairness

\* The setpoint entities of the WPM coordinator call set_data with values
\* of the device range -30.0..90.0, on and off the grid of the registers.
ScaledWritableKeys == {k \in WritableKeys("wpm") : WpmWriteScale(k) # 1}

CodecValues == {-30000, -5560, -1150, 0, 1150, 21540, 21550, 21560, 90000}

InitCodec ==
    /\ InitSet
    /\ family = "wpm"
    /\ dev = 1

NextCodec ==
    \/ \E key \in ScaledWritableKeys, value \in CodecValues :
          SetCall("w1", key, value)
    \/ WriteBegin("w1")
    \/ \E resp \in {"ok", "error"} : WriteReturns("w1", resp)
    \/ SetUpdate("w1")

SpecCodec == InitCodec /\ [][NextCodec]_vars

(* ----------------------------- properties ----------------------------- *)

\* The step in which read_modbus_data returns and the host stores its dict.
\* The values the entities pass against a device that stores what is
\* written: in the device's range, and none that an image already holds.
DeviceValues(fam, key) ==
    IF WriteScale(fam, key) # 1 THEN {21500, -5500} ELSE {2, 5}

\* set_data is called while the device has stored no word yet.
DeviceSetCall(w) ==
    /\ written = EmptyDict
    /\ \E key \in WritableKeys(family) : \E value \in DeviceValues(family, key) :
          SetCall(w, key, value)

InitDevice ==
    /\ InitSet
    /\ dev = 1

NextDevice ==
    \/ StartCycle
    \/ PollAcquire
    \/ PollReadOk
    \/ Publish
    \/ DeviceSetCall("w1")
    \/ WriteBegin("w1")
    \/ WriteStored("w1")
    \/ SetUpdate("w1")

\* The coordinator and one entity calling set_data, against a device that
\* answers every read and stores every word written to it.
SpecDevice == InitDevice /\ [][NextDevice]_vars

PublishStep == pollpc = "publish" /\ pollpc' = "idle"

\* C1 (as the specification states it): a cycle merges over the previous
\* snapshot.  When a cycle whose block read failed is published, every key
\* the snapshot held before the cycle is still there, and a key the cycle did
\* not read keeps the value it had.  The code replaces the snapshot by the
\* cycle's dict, so this fails under SpecPoll.
C1_SnapshotMerges ==
    [][PublishStep =>
          \A k \in DOMAIN prev :
              /\ k \in DOMAIN data'
              /\ k \notin DOMAIN result => data'[k] = prev[k]]_vars

\* The blocks of the cycle that answered with an error response.
ErrorBlocks(o) == {b \in BlockSet : o[b] = "error"}

\* C2: an error response to one block read does not abort the cycle.  The
\* cycle goes on to the next block in order (or to its return after the last
\* one), the block adds nothing to the cycle's dict, a block that is read adds
\* every field of its decoder, and the dict the cycle returns holds exactly
\* the fields of the blocks that answered, all six blocks having been read.
C2_ErrorResponseDoesNotAbort ==
    [][/\ (pollpc = "reading" /\ outcomes'[Blocks[blk]] = "error") =>
            /\ result' = result
            /\ lastUpdate' = lastUpdate
            /\ failures' = failures
            /\ IF blk < Len(Blocks)
               THEN pollpc' = "want" /\ blk' = blk + 1
               ELSE pollpc' = "publish"
       /\ (pollpc = "reading" /\ outcomes'[Blocks[blk]] = "ok") =>
            LET f == DecodeTable[family][Blocks[blk]][dev].fields
            IN  \A k \in DOMAIN f : k \in DOMAIN result' /\ result'[k] = f[k]
       /\ (pollpc' = "publish") =>
            /\ \A b \in BlockSet : outcomes'[b] \in {"ok", "error"}
            /\ result' = CycleResult(family, dev, ErrorBlocks(outcomes'))]_vars

\* A WPM cycle was published in which the block at 2500 answered with an error
\* response and the last block, at 4000, was read.
C2_Witness ==
    /\ family = "wpm"
    /\ pollpc = "idle"
    /\ lastUpdate = "ok"
    /\ outcomes["state"] = "error"
    /\ outcomes["sg_switch"] = "ok"
    /\ "SG_READY_ACTIVE" \in DOMAIN data
    /\ "HEATING_CIRCUIT_1_PUMP" \notin DOMAIN data

\* C3: when the connection cannot be opened or a decoder raises during a
\* cycle, the cycle ends with exactly one UpdateFailed and the snapshot is
\* the one the cycle started from.
C3_FailedCycleKeepsSnapshot ==
    [][(pollpc = "reading"
          /\ outcomes'[Blocks[blk]] \in {"raised", "decode_raised"}) =>
            /\ pollpc' = "idle"
            /\ lastUpdate' = "failed"
            /\ failures' = 1
            /\ data' = prev
            /\ ready' = ready]_vars

\* A cycle has failed on a decoder that raised, after an earlier cycle had
\* filled the snapshot.
C3_Witness ==
    /\ pollpc = "idle"
    /\ lastUpdate = "failed"
    /\ failures = 1
    /\ \E b \in BlockSet : outcomes[b] = "decode_raised"
    /\ data # EmptyDict

\* C4: at most one call is inside the Modbus client at any time, and it is
\* the call of the lock's holder.
C4_MutualExclusion ==
    /\ Cardinality(inflight) <= 1
    /\ inflight # {} => inflight = {lock}

\* A set_data call waits for the lock while a block read of the poll cycle is
\* inside the client.
C4_Witness ==
    /\ inflight = {"poll"}
    /\ pollpc = "reading"
    /\ \E w \in Writers : wpc[w] = "want"

\* C5: at most one poll cycle runs at any time; a refresh that falls due
\* while a cycle runs is not entered.
C5_OneCycleAtATime ==
    /\ cycles <= 1
    /\ cycles = 1 <=> pollpc # "idle"

\* The next refresh is due while a cycle is reading a block.
C5_Witness ==
    /\ timerDue
    /\ pollpc = "reading"
    /\ blk > 1
    /\ cycles = 1

\* C6: no error stops the polling.  Again and again the coordinator is idle
\* with the lock not left to the cycle, a new cycle starts and gets the lock
\* for its first read, and the lock is free.
C6_PollingNeverStops ==
    /\ []<>(pollpc = "idle" /\ lock # "poll")
    /\ []<>(pollpc = "want" /\ blk = 1)
    /\ []<>(pollpc = "reading" /\ blk = 1)
    /\ []<>(lock = "free")

\* After a cycle that failed and a set_data call that raised, the next cycle
\* holds the lock for its first read.
C6_Witness ==
    /\ lastUpdate = "failed"
    /\ last.res = "raised"
    /\ pollpc = "reading"
    /\ blk = 1
    /\ lock = "poll"

\* C7: set_data with a key the family writes issues exactly one
\* write_registers call, on unit 1, at the key's address (1500 for
\* OPERATION_MODE, with the value passed), and after a write that succeeded
\* the snapshot holds the value passed under the key.
C7_SetWritesOnceAndStoresRaw ==
    (last.res # "none" /\ last.key \in WritableKeys(family)) =>
        /\ Len(last.writes) = 1
        /\ last.writes[1].unit = 1
        /\ last.writes[1].address = WriteAddressTable(family)[last.key]
        /\ last.key = "OPERATION_MODE" =>
              /\ last.writes[1].address = 1500
              /\ last.writes[1].value = last.value
        /\ last.resp = "ok" =>
              /\ last.key \in DOMAIN data
              /\ data[last.key] = last.value

\* set_data("COMFORT_TEMPERATURE_TARGET_HK1", 21.5) has written the word 215
\* at 1501 and the snapshot holds 21.5.
C7_Witness ==
    /\ last.key = "COMFORT_TEMPERATURE_TARGET_HK1"
    /\ last.value = 21500
    /\ last.resp = "ok"
    /\ last.writes = <<[unit |-> 1, address |-> 1501, value |-> 215]>>
    /\ data["COMFORT_TEMPERATURE_TARGET_HK1"] = 21500

\* C8: set_data with a key the family does not write returns without a
\* client call and leaves the snapshot, the lock and the client as they were.
C8_UnknownKeyIsNoop ==
    [][(last' # last /\ last'.key \notin WritableKeys(family)) =>
          /\ last'.res = "returned"
          /\ last'.writes = <<>>
          /\ data' = data
          /\ lock' = lock
          /\ inflight' = inflight
          /\ connected' = connected]_vars

\* The base coordinator was asked to set a key only the WPM coordinator
\* writes.
C8_Witness ==
    /\ family = "base"
    /\ last.key = "COMFORT_TEMPERATURE_TARGET_HK1"
    /\ last.res = "returned"
    /\ last.writes = <<>>
    /\ "COMFORT_TEMPERATURE_TARGET_HK1" \notin DOMAIN data

\* C9 (as the specification states it): a set_data whose write failed, by an
\* exception or by an error response, raises to its caller after one write
\* and does not store the value.  set_data drops the response of
\* write_register, so this fails under SpecSet for an error response.
C9_FailedWriteIsReported ==
    (last.res = "raised" \/ last.resp = "error") =>
        /\ last.res = "raised"
        /\ Len(last.writes) = 1
        /\ ~last.stored

\* The register word of a scaled key does not fit a signed 16-bit register.
OutOfRange(fam, key, value) ==
    /\ key \in WritableKeys(fam)
    /\ WriteScale(fam, key) # 1
    /\ WriteWord(fam, key, value) \notin -32768..32767

\* C10 (as the specification states it): a set_data whose scaled value does
\* not fit a signed 16-bit register raises, attempts no write and leaves the
\* snapshot alone.  set_data checks no range, so this fails under SpecSet.
C10_OutOfRangeIsRejected ==
    (last.res # "none" /\ OutOfRange(family, last.key, last.value)) =>
        /\ last.res = "raised"
        /\ last.writes = <<>>
        /\ ~last.stored

\* round(x) half away from zero for x = num / den, den > 0.
RoundHalfAway(num, den) ==
    IF num >= 0 THEN (2 * num + den) \div (2 * den)
    ELSE -((2 * (-num) + den) \div (2 * den))

\* The set_data call that ended last wrote a register for a scaled key.
ScaledCallEnded ==
    /\ last.res = "returned"
    /\ last.key \in ScaledWritableKeys
    /\ family = "wpm"

\* C11 (as the specification states it): the word set_data writes for a
\* scaled key is round(value * scale), half away from zero, for positive and
\* negative values.  set_data writes int(value * scale), which truncates, so
\* this fails under SpecCodec.
C11_WritesRoundedWord ==
    ScaledCallEnded =>
        last.writes[1].value
            = RoundHalfAway(last.value * WpmWriteScale(last.key), 1000)

\* The value the parameter decoder yields for the word set_data wrote.
ReadBack(key, word) ==
    get_isg_scaled_value_factor(word, Divisor(WpmParamLayout, key))

\* |a - b|
Distance(a, b) == IF a >= b THEN a - b ELSE b - a

\* C12 (as the specification states it): for a value of the device range,
\* the word set_data writes decodes, with the key's divisor, to a value less
\* than one unit of the key's resolution from the value passed.  For
\* set_data("HEATING_CURVE_RISE_HK1", 1.15) the word is 114, a whole unit
\* below, so this fails under SpecCodec.
C12_RoundTripWithinOneUnit ==
    (ScaledCallEnded /\ last.value \in -30000..90000) =>
        Distance(ReadBack(last.key, last.writes[1].value), last.value)
            < 1000 \div WpmWriteScale(last.key)

\* The decoder walk of a block that holds scaled fields.
ScaledLayout(fam, b) ==
    IF b = "values"
    THEN (IF fam = "wpm" THEN WpmValuesLayout ELSE BaseValuesLayout)
    ELSE (IF fam = "wpm" THEN WpmParamLayout ELSE BaseParamLayout)

\* The scaled fields of the block whose word in the response is -32768.
SentinelKeys(fam, b, k) ==
    LET raw == Decoded(ScaledLayout(fam, b), ResponseTable[fam][b][k])
    IN  {key \in ScaledKeys(ScaledLayout(fam, b)) : raw[key] = -32768}

\* C13 (as the specification states it): no decoder raises on a sentinel
\* word, and a scaled field whose word is -32768 is None in the block's
\* result.  The base decoder divides HEATER_PRESSURE and VOLUME_STREAM by 10
\* after scaling, which raises on None, so this fails under SpecPoll.
C13_SentinelDecodesToNone ==
    \A b \in {"values", "param"} :
        /\ outcomes[b] # "decode_raised"
        /\ (pollpc # "idle" /\ outcomes[b] = "ok") =>
              \A key \in SentinelKeys(family, b, dev) \cap DOMAIN result :
                  result[key] = NoneVal

\* What the claim expects of a decoded WPM system-state block: the flags
\* are the bits of word 0, ERROR_STATUS is word 3, ACTIVE_ERROR comes from
\* word 6, and a status register (2509 is word 8, 2547 is word 46) is in
\* the result with its word unless the word is 32768.
WpmStateAsDocumented(regs, fields) ==
    LET w == Decoded(WpmStateLayout, regs)
    IN  /\ \A f \in DOMAIN WpmStateFlags :
              fields[f] = Bit(regs[1], WpmStateFlags[f])
        /\ fields["ERROR_STATUS"] = regs[4]
        /\ fields["ACTIVE_ERROR"] = ActiveError(regs[7])
        /\ w["HEATING_CIRCUIT_1_PUMP"] = regs[9]
        /\ w["HEAT_PUMP_6_ON"] = regs[47]
        /\ \A k \in WpmStatusKeys :
              IF w[k] = 32768 THEN k \notin DOMAIN fields
              ELSE k \in DOMAIN fields /\ fields[k] = w[k]

\* C14 (as the specification states it): the WPM decoder of the block at
\* 2500 never raises and yields the documented fields.  Seven branches
\* (registers 2509..2515) read result[KEY] instead of assigning it, which
\* raises KeyError when the register holds a status, so this fails under
\* SpecPoll.
C14_WpmStateDecodes ==
    family = "wpm" =>
        /\ outcomes["state"] # "decode_raised"
        /\ (pollpc # "idle" /\ outcomes["state"] = "ok") =>
              WpmStateAsDocumented(ResponseTable["wpm"]["state"][dev], result)

\* The fields of an energy block as the claim states them, from the words
\* of the response (regs[1] is word 0).
EnergyAsDocumented(regs, fields) ==
    /\ fields["PRODUCED_HEATING_TODAY"] = regs[1]
    /\ fields["PRODUCED_HEATING_TOTAL"] = regs[3] * 1000 + regs[2]
    /\ fields["PRODUCED_WATER_HEATING_TODAY"] = regs[4]
    /\ fields["PRODUCED_WATER_HEATING_TOTAL"] = regs[6] * 1000 + regs[5]
    /\ fields["CONSUMED_HEATING_TODAY"] = regs[11]
    /\ fields["CONSUMED_HEATING_TOTAL"] = regs[13] * 1000 + regs[12]
    /\ fields["CONSUMED_WATER_HEATING_TODAY"] = regs[14]
    /\ fields["CONSUMED_WATER_HEATING_TOTAL"] = regs[16] * 1000 + regs[15]

\* C15: each lifetime counter of the energy block is high * 1000 + low of its
\* own words (low after the counter's 'today' word, high after it), also
\* when high is 0, and the consumed counters are read from words 10..15,
\* after the four NHZ words.
C15_EnergyCountersAreCompound ==
    (pollpc # "idle" /\ outcomes["energy"] = "ok") =>
        EnergyAsDocumented(ResponseTable[family]["energy"][dev], result)

\* A cycle has decoded an energy block whose produced-heating counter has
\* the high word 0 and whose consumed-heating counter differs from the NHZ
\* words before it.
C15_Witness ==
    /\ pollpc = "publish"
    /\ outcomes["energy"] = "ok"
    /\ LET regs == ResponseTable[family]["energy"][dev]
       IN  /\ regs[3] = 0
           /\ regs[2] > 0
           /\ result["PRODUCED_HEATING_TOTAL"] = regs[2]
           /\ regs[12] # regs[8]
           /\ result["CONSUMED_HEATING_TOTAL"] = regs[13] * 1000 + regs[12]

\* The cycle being published received what the last published cycle
\* received: no failed cycle in between, the same device memory and the same
\* failing blocks.
SameResponsesAsPublished ==
    /\ lastUpdate = "ok"
    /\ published.dev = dev
    /\ published.faulty = faulty

\* C16: two consecutive full poll cycles that receive identical device
\* responses publish identical snapshots and leave the same model name,
\* whatever set calls stored in the snapshot in between.
C16_ConsecutiveCyclesAgree ==
    [][(PublishStep /\ SameResponsesAsPublished)
         => (data' = published.data /\ model' = published.model)]_vars

\* The second of two such cycles is about to publish, and a set call has
\* changed the snapshot since the first one published.
C16_Witness ==
    /\ pollpc = "publish"
    /\ SameResponsesAsPublished
    /\ data # published.data
    /\ result = published.data

\* The names the integration gives to the model ids it knows.
DocumentedModelNames ==
    [id \in {390, 391, 449} |->
        IF id = 390 THEN "WPM 3" ELSE IF id = 391 THEN "WPM 3i" ELSE "WPMsystem"]

DocumentedModelName(id) ==
    IF id \in DOMAIN DocumentedModelNames THEN DocumentedModelNames[id]
    ELSE "other model"

\* The read of the block at 5000 returns in this step, with registers or
\* with an error response.
ModelBlockReadStep(how) ==
    /\ pollpc = "reading"
    /\ Blocks[blk] = "sg_state"
    /\ outcomes'["sg_state"] = how

SuccessfulCycle(fam) ==
    IF fam = family THEN data' ELSE CycleResult(fam, dev, {})

\* C18: WPM is a superset of base.  For the same device memory, every key a
\* successful base cycle puts in the snapshot is put there by a successful
\* WPM cycle too, with the same value.  The base family's CONSUMED_POWER has
\* no counterpart in the WPM family, so this fails under SpecPoll.
C18_WpmIsSupersetOfBase ==
    [][(/\ PublishStep
        /\ ErrorBlocks(outcomes) = {}
        /\ Decodable("base", dev)
        /\ Decodable("wpm", dev))
         => \A key \in DOMAIN SuccessfulCycle("base") :
                /\ key \in DOMAIN SuccessfulCycle("wpm")
                /\ SuccessfulCycle("wpm")[key] = SuccessfulCycle("base")[key]]_vars

\* The addresses of the holding-register blocks the family reads: 1500..1518
\* and 4000..4002.
HoldingAddresses(fam) ==
    UNION {BlockAddress(b)..(BlockAddress(b) + BlockCount(fam, b) - 1) :
              b \in {c \in BlockSet : BlockBank(c) = "holding"}}

\* C19: every address set_data writes to lies inside a holding-register
\* block of the coordinator's family.  The WPM chain writes CIRCULATION_PUMP
\* to 47012, so this fails under SpecSet.
C19_WritesStayInsideHoldingBlocks ==
    \A w \in Writers : \A i \in DOMAIN wlog[w] :
        wlog[w][i].address \in HoldingAddresses(family)

\* The dict is the one the last finished cycle returned, but for keys
\* set_data stored since: it has every key of that dict, and a key whose
\* value is not the cycle's is a writable key holding a value passed to
\* set_data.
WholeSnapshot ==
    /\ DOMAIN published.data \subseteq DOMAIN data
    /\ \A key \in DOMAIN data :
          \/ key \in DOMAIN published.data /\ data[key] = published.data[key]
          \/ key \in WritableKeys(family) /\ data[key] \in HostValues

\* The dict the last finished cycle returned is what a whole cycle over the
\* device memory returns: every block that answered has contributed.
WholeCycle ==
    published # NoPublication
        => published.data = CycleResult(family, published.dev, published.faulty)

\* The step stores a cycle's returned dict, or is the last statement of a
\* set_data call.
CoordinatorStores ==
    \/ PublishStep
    \/ \E w \in Writers : wpc[w] = "update" /\ wpc'[w] = "idle"

\* C20: no torn snapshot.  In every state of every interleaving of a poll
\* cycle, set_data calls, connect, close and the reset button, self.data is
\* the whole result of the last finished cycle plus the values set_data
\* stored, never a dict holding some blocks of the cycle in progress; and a
\* step that changes self.data is the coordinator's own: the publication of
\* a cycle or the store of set_data.
C20_NoTornSnapshot ==
    /\ [](WholeSnapshot /\ WholeCycle)
    /\ [][data' # data => CoordinatorStores]_vars

\* A cycle has decoded some of its blocks while the snapshot holds the
\* previous cycle's result and a value set_data stored.
C20_Witness ==
    /\ ready
    /\ pollpc = "reading"
    /\ blk = 4
    /\ result # EmptyDict
    /\ data # published.data

\* The request of a block read, as it goes to the client.
ReadRequest(b) ==
    [bank |-> BlockBank(b), address |-> BlockAddress(b), unit |-> BlockUnit(b)]

\* The block reads of a cycle in the documented order.
DocumentedReads ==
    << [bank |-> "input", address |-> 3500, unit |-> 1],
       [bank |-> "input", address |-> 2500, unit |-> 1],
       [bank |-> "input", address |-> 500, unit |-> 1],
       [bank |-> "holding", address |-> 1500, unit |-> 1],
       [bank |-> "input", address |-> 5000, unit |-> 1],
       [bank |-> "holding", address |-> 4000, unit |-> 1] >>

\* The blocks whose read has returned in the current cycle.
BlocksRead(o) == {b \in BlockSet : o[b] # "none"}

\* The cycle issues a block read in this step.
ReadIssued == pollpc = "want" /\ pollpc' = "reading"

\* C21: the block reads of a cycle are issued in one fixed order, for both
\* families: 3500, 2500, 500 (input), 1500 (holding), 5000 (input), 4000
\* (holding), all on unit 1.  The n-th read of a cycle is the n-th documented
\* one, the reads before it have returned and been decoded, no block is read
\* twice, and a cycle returns its dict only after all six.
C21_BlocksReadInFixedOrder ==
    [][/\ ReadIssued =>
            LET n == Cardinality(BlocksRead(outcomes))
            IN  /\ n < Len(DocumentedReads)
                /\ ReadRequest(Blocks[blk]) = DocumentedReads[n + 1]
                /\ Blocks[blk] \notin BlocksRead(outcomes)
                /\ {ReadRequest(b) : b \in BlocksRead(outcomes)}
                       = {DocumentedReads[i] : i \in 1..n}
       /\ PublishStep =>
            {ReadRequest(b) : b \in BlocksRead(outcomes)}
               = {DocumentedReads[i] : i \in 1..Len(DocumentedReads)}]_vars

\* The last read of a WPM cycle, the one at 4000, is under way in a cycle
\* whose read at 5000 answered with an error response.
C21_Witness ==
    /\ family = "wpm"
    /\ pollpc = "reading"
    /\ Blocks[blk] = "sg_switch"
    /\ outcomes["sg_state"] = "error"
    /\ Cardinality(BlocksRead(outcomes)) = 5

\* The register number the comments of wpm_coordinator.py give for each
\* word its decoders read (the numbers of the controller's register list,
\* which start one above the address).
DocumentedRegister ==
    [state |-> 2501, ERROR_STATUS |-> 2504, error |-> 2507,
     HEATING_CIRCUIT_1_PUMP |-> 2509, HEATING_CIRCUIT_2_PUMP |-> 2510,
     HEATING_CIRCUIT_3_PUMP |-> 2511, BUFFER_1_CHARGING_PUMP |-> 2512,
     BUFFER_2_CHARGING_PUMP |-> 2513, DHW_CHARGING_PUMP |-> 2514,
     SOURCE_PUMP |-> 2515, CIRCULATION_PUMP |-> 2517, SECOND_GENERATOR_DHW
     |-> 2518, SECOND_GENERATOR_HEATING |-> 2519, COOLING_MODE |-> 2520,
     MIXER_OPEN_HTG_CIRCUIT_2 |-> 2521, MIXER_CLOSE_HTG_CIRCUIT_2 |->
     2522, MIXER_OPEN_HTG_CIRCUIT_3 |-> 2523, MIXER_CLOSE_HTG_CIRCUIT_3
     |-> 2524, EMERGENCY_HEATING_1 |-> 2525, EMERGENCY_HEATING_2 |-> 2526,
     EMERGENCY_HEATING_1_2 |-> 2527, HEATING_CIRCUIT_4_PUMP |-> 2528,
     HEATING_CIRCUIT_5_PUMP |-> 2529, BUFFER_3_CHARGING_PUMP |-> 2530,
     BUFFER_4_CHARGING_PUMP |-> 2531, BUFFER_5_CHARGING_PUMP |-> 2532,
     BUFFER_6_CHARGING_PUMP |-> 2533, DIFF_CONTROLLER_1_PUMP |-> 2534,
     DIFF_CONTROLLER_2_PUMP |-> 2535, POOL_PRIMARY_PUMP |-> 2536,
     POOL_SECONDARY_PUMP |-> 2537, MIXER_OPEN_HTG_CIRCUIT_4 |-> 2538,
     MIXER_CLOSE_HTG_CIRCUIT_4 |-> 2539, MIXER_OPEN_HTG_CIRCUIT_5 |->
     2540, MIXER_CLOSE_HTG_CIRCUIT_5 |-> 2541, HEAT_PUMP_1_ON |-> 2542,
     HEAT_PUMP_2_ON |-> 2543, HEAT_PUMP_3_ON |-> 2544, HEAT_PUMP_4_ON |->
     2545, HEAT_PUMP_5_ON |-> 2546, HEAT_PUMP_6_ON |-> 2547,
     ACTUAL_TEMPERATURE |-> 501, TARGET_TEMPERATURE |-> 502,
     ACTUAL_TEMPERATURE_FEK |-> 503, TARGET_TEMPERATURE_FEK |-> 504,
     ACTUAL_HUMIDITY |-> 505, DEWPOINT_TEMPERATURE |-> 506,
     OUTDOOR_TEMPERATURE |-> 507, ACTUAL_TEMPERATURE_HK1 |-> 508,
     TARGET_TEMPERATURE_HK1 |-> 510, ACTUAL_TEMPERATURE_HK2 |-> 511,
     TARGET_TEMPERATURE_HK2 |-> 512, FLOW_TEMPERATURE |-> 513,
     FLOW_TEMPERATURE_NHZ |-> 514, RETURN_TEMPERATURE |-> 516,
     ACTUAL_TEMPERATURE_BUFFER |-> 518, TARGET_TEMPERATURE_BUFFER |-> 519,
     HEATER_PRESSURE |-> 520, VOLUME_STREAM |-> 521,
     ACTUAL_TEMPERATURE_WATER |-> 522, TARGET_TEMPERATURE_WATER |-> 523,
     ACTUAL_TEMPERATURE_COOLING_FANCOIL |-> 524,
     TARGET_TEMPERATURE_COOLING_FANCOIL |-> 525,
     ACTUAL_TEMPERATURE_COOLING_SURFACE |-> 526,
     TARGET_TEMPERATURE_COOLING_SURFACE |-> 527, SOURCE_TEMPERATURE |->
     536, SOURCE_PRESSURE |-> 538, HOT_GAS_TEMPERATURE |-> 539,
     HIGH_PRESSURE |-> 540, LOW_PRESSURE |-> 541, RETURN_TEMPERATURE_WP1
     |-> 542, FLOW_TEMPERATURE_WP1 |-> 543, HOT_GAS_TEMPERATURE_WP1 |->
     544, LOW_PRESSURE_WP1 |-> 545, HIGH_PRESSURE_WP1 |-> 547,
     VOLUME_STREAM_WP1 |-> 548, RETURN_TEMPERATURE_WP2 |-> 549,
     FLOW_TEMPERATURE_WP2 |-> 550, HOT_GAS_TEMPERATURE_WP2 |-> 551,
     LOW_PRESSURE_WP2 |-> 552, HIGH_PRESSURE_WP2 |-> 554,
     VOLUME_STREAM_WP2 |-> 555, ACTUAL_ROOM_TEMPERATURE_HK1 |-> 584,
     TARGET_ROOM_TEMPERATURE_HK1 |-> 585, ACTUAL_HUMIDITY_HK1 |-> 586,
     DEWPOINT_TEMPERATURE_HK1 |-> 587, ACTUAL_ROOM_TEMPERATURE_HK2 |->
     588, TARGET_ROOM_TEMPERATURE_HK2 |-> 589, ACTUAL_HUMIDITY_HK2 |->
     590, DEWPOINT_TEMPERATURE_HK2 |-> 591, ACTUAL_ROOM_TEMPERATURE_HK3
     |-> 592, TARGET_ROOM_TEMPERATURE_HK3 |-> 593, ACTUAL_HUMIDITY_HK3 |->
     594, DEWPOINT_TEMPERATURE_HK3 |-> 595, ACTUAL_TEMPERATURE_HK3 |->
     609, TARGET_TEMPERATURE_HK3 |-> 610, OPERATION_MODE |-> 1501,
     COMFORT_TEMPERATURE_TARGET_HK1 |-> 1502, ECO_TEMPERATURE_TARGET_HK1
     |-> 1503, HEATING_CURVE_RISE_HK1 |-> 1504,
     COMFORT_TEMPERATURE_TARGET_HK2 |-> 1505, ECO_TEMPERATURE_TARGET_HK2
     |-> 1506, HEATING_CURVE_RISE_HK2 |-> 1507, DUALMODE_TEMPERATURE_HZG
     |-> 1509, COMFORT_WATER_TEMPERATURE_TARGET |-> 1510,
     ECO_WATER_TEMPERATURE_TARGET |-> 1511, DUALMODE_TEMPERATURE_WW |->
     1513, AREA_COOLING_TARGET_FLOW_TEMPERATURE |-> 1514,
     AREA_COOLING_TARGET_ROOM_TEMPERATURE |-> 1516,
     FAN_COOLING_TARGET_FLOW_TEMPERATURE |-> 1517,
     FAN_COOLING_TARGET_ROOM_TEMPERATURE |-> 1519]

\* The words each block read asks for.
DocumentedWords(fam, b) ==
    CASE b = "energy" -> 22
      [] b = "state" -> (IF fam = "wpm" THEN 47 ELSE 1)
      [] b = "values" -> (IF fam = "wpm" THEN 111 ELSE 40)
      [] b = "param" -> 19
      [] b = "sg_state" -> 2
      [] b = "sg_switch" -> 3

\* The decoding steps of a layout whose word has a documented register.
DocumentedSteps(layout) ==
    {i \in StepIndexes(layout, {"u16", "i16"}) :
        layout[i].key \in DOMAIN DocumentedRegister}

\* The lowest documented register of a layout.
FirstDocumented(layout) ==
    LET docs == {DocumentedRegister[layout[i].key] : i \in DocumentedSteps(layout)}
    IN  CHOOSE r \in docs : \A q \in docs : r <= q

\* The walk stays inside the words of the response, and every documented
\* word is decoded at its register's distance from the first one.
WalkInsideBlock(fam, b, regs) ==
    LET layout == BlockLayout(fam, b)
        off == Offsets(layout)
    IN  /\ Len(regs) = DocumentedWords(fam, b)
        /\ LayoutBytes(layout, 1) <= 2 * Len(regs)
        /\ \A i \in 1..Len(layout) : off[i] + layout[i].n <= 2 * Len(regs)
        /\ \A i \in DocumentedSteps(layout) :
              off[i] = 2 * (DocumentedRegister[layout[i].key]
                              - FirstDocumented(layout))

\* WalkInsideBlock for every family, block and device image.
WalkTable ==
    [fam \in Families |-> [b \in BlockSet |->
        [k \in ModelImages |->
            WalkInsideBlock(fam, b, ResponseTable[fam][b][k])]]]

\* C22: in every block decoder of both families the cursor never passes the
\* end of the block that was read (base: 1, 40, 19, 22, 2, 3 words; WPM: 47,
\* 111, 19, 22, 2, 3), and each field is decoded at the word offset its
\* documented register number gives.
C22_CursorStaysInsideBlock ==
    \A b \in BlockSet :
        (outcomes[b] # "none" /\ b \notin faulty)
            => WalkTable[family][b][dev]

\* A WPM cycle has decoded the 111-word block at 500 down to its last
\* field.
C22_Witness ==
    /\ family = "wpm"
    /\ outcomes["values"] = "ok"
    /\ pollpc = "want"
    /\ "TARGET_TEMPERATURE_HK3" \in DOMAIN result

\* What a cycle that meets no error response returns from the device as it
\* is now, with the words it has stored.
DeviceCycleResult(fam, k, wr) ==
    DeviceDecode(fam, "sg_switch", k, wr).fields
    @@ DeviceDecode(fam, "sg_state", k, wr).fields
    @@ DeviceDecode(fam, "param", k, wr).fields
    @@ DeviceDecode(fam, "values", k, wr).fields
    @@ DeviceDecode(fam, "state", k, wr).fields
    @@ DeviceDecode(fam, "energy", k, wr).fields

\* The keys whose register the device has stored a word for, the device now
\* returning for them another value than before the write.
RewrittenKeys ==
    {key \in WritableKeys(family) \cap DOMAIN data :
        /\ WriteAddress(family, key) \in DOMAIN written
        /\ key \in DOMAIN CycleResult(family, dev, {})
        /\ DeviceCycleResult(family, dev, written)[key]
              # CycleResult(family, dev, {})[key]}

\* C23: a successful set_data is not undone by a cycle that was already
\* running.  Once the call has ended and no cycle is running, the snapshot
\* does not hold for the field the value the device had before the write.
\* A cycle that read the field's block before the write publishes that
\* value over the one set_data stored, so this fails under SpecDevice.
C23_SetSurvivesRunningCycle ==
    (pollpc = "idle" /\ wpc["w1"] = "idle")
        => \A key \in RewrittenKeys :
               data[key] # CycleResult(family, dev, {})[key]

\* The value the written word stands for: the 16-bit word as it is for a
\* field written unscaled, the signed word over the field's factor for a
\* scaled one.
WrittenWordDecoded(fam, key) ==
    LET word == written[WriteAddress(fam, key)]
    IN  IF WriteScale(fam, key) = 1 THEN word
        ELSE get_isg_scaled_value_factor(Signed(word), WriteScale(fam, key))

\* The last set_data call wrote the key, the device stored the word, and the
\* cycle being published started after the call had stored its value.
SetBeforeCycle(key) ==
    /\ last.key = key
    /\ last.stored
    /\ last.resp = "ok"
    /\ wpc["w1"] = "idle"
    /\ WriteAddress(family, key) \in DOMAIN written
    /\ key \in DOMAIN prev
    /\ prev[key] = last.value

\* C24: write and read addresses agree.  Against a device that stores each
\* written word, set_data(field, v) followed by one full poll cycle leaves in
\* the snapshot, for the field, the decoding of the word written.  The WPM
\* chain writes CIRCULATION_PUMP to 47012 and decodes it from the status
\* block at 2500, so this fails under SpecDevice.
C24_WriteAndReadAddressesAgree ==
    [][\A key \in WritableKeys(family) :
          (PublishStep /\ SetBeforeCycle(key))
              => /\ key \in DOMAIN data'
                 /\ data'[key] = WrittenWordDecoded(family, key)]_vars

====
